---------------------------- MODULE Spec2Model ----------------------------
(***************************************************************************)
(* Model of the counting core of VehicleDetectionSystem (src/main.py):     *)
(* categorize_vehicle, and detect_and_count's frame loop with its identity *)
(* resolution, dedup set, per-second buckets and final flush.              *)
(*                                                                         *)
(* One VehicleDetectionSystem instance is modelled.  Its attributes        *)
(* (use_tracking, tracked_vehicles, time_series_data, detection_counter)   *)
(* live as long as the instance; the locals of detect_and_count            *)
(* (category_counts, frame_count, fps, current_second, second_counts, ...) *)
(* are re-initialised by every call.  The detector, the tracker, the video *)
(* and the keyboard are the environment; their answers are inputs.         *)
(***************************************************************************)
EXTENDS Integers, Sequences, FiniteSets

(* ------------------------------ bounds --------------------------------- *)
\* calls of detect_and_count made on the instance
MaxCalls == 2
\* frames read by the instance, over all its calls
MaxFrames == 3
\* detections the detector reports for one frame
MaxDet == 2
\* tracker ids are 1..MaxTrackId
MaxTrackId == 2
\* frame rates reported by the video are 0..MaxFps
MaxFps == 2

(* --------------------------- characters -------------------------------- *)
\* Class names are sequences of one-character strings, so that str.lower()
\* is a real conversion.
UpperChars ==
  <<"A","B","C","D","E","F","G","H","I","J","K","L","M",
    "N","O","P","Q","R","S","T","U","V","W","X","Y","Z">>

LowerChars ==
  <<"a","b","c","d","e","f","g","h","i","j","k","l","m",
    "n","o","p","q","r","s","t","u","v","w","x","y","z">>

\* str.lower() on one character
LowerChar(c) ==
  IF \E i \in 1..26 : UpperChars[i] = c
    THEN LowerChars[CHOOSE i \in 1..26 : UpperChars[i] = c]
    ELSE c

\* str.lower(): class_name.lower() of line 100
Lower(s) == [i \in 1..Len(s) |-> LowerChar(s[i])]

(* ------------------------- category tables ----------------------------- *)
\* the keys of class_mapping (lines 92-99)
L_bicycle == <<"b","i","c","y","c","l","e">>
L_car == <<"c","a","r">>
L_motorcycle == <<"m","o","t","o","r","c","y","c","l","e">>
L_bus == <<"b","u","s">>
L_train == <<"t","r","a","i","n">>
L_truck == <<"t","r","u","c","k">>

\* class_mapping of categorize_vehicle, as (key, value) pairs
class_mapping ==
  { <<L_bicycle, "bike">>, <<L_car, "car">>, <<L_motorcycle, "bike">>,
    <<L_bus, "bus">>, <<L_train, "others">>, <<L_truck, "truck">> }

\* dict.get(key, default) on a set of pairs
MappingGet(m, key, default) ==
  IF \E p \in m : p[1] = key
    THEN (CHOOSE p \in m : p[1] = key)[2]
    ELSE default

\* categorize_vehicle(class_name): class_mapping.get(class_name.lower(), 'others')
categorize_vehicle_nolower(name) == MappingGet(class_mapping, name, "others")

categorize_vehicle(name) == MappingGet(class_mapping, Lower(name), "others")

\* the closed set of categories, in the order of line 360
CategoryOrder == <<"car", "bike", "bus", "truck", "others">>

Categories == { CategoryOrder[i] : i \in 1..Len(CategoryOrder) }

\* self.category_plurals (lines 74-80)
category_plurals ==
  [c \in Categories |->
     CASE c = "car" -> "cars"
       [] c = "bike" -> "bikes"
       [] c = "bus" -> "buses"
       [] c = "truck" -> "trucks"
       [] c = "others" -> "others"]

\* self.category_plurals.get(category, category + 's') of line 234; the
\* concatenation is kept as the pair <<category, "s">>
PluralOf_append_s(category) == <<category, "s">>

PluralOf(category) ==
  IF category \in DOMAIN category_plurals
    THEN category_plurals[category]
    ELSE <<category, "s">>

\* the keys of second_counts (lines 173 and 251)
PluralKeys == {"cars", "bikes", "buses", "trucks", "others"}

\* {'cars': 0, 'bikes': 0, 'buses': 0, 'trucks': 0, 'others': 0}
ZeroCounts == [k \in PluralKeys |-> 0]

\* self.class_list = self.model.names, for the class indices the detector is
\* asked for (classes=[1,2,3,5,6,7]; the kinds are named in lines 59-65)
ClassIndices == {1, 2, 3, 5, 6, 7}

class_list ==
  [c \in ClassIndices |->
     CASE c = 1 -> L_bicycle
       [] c = 2 -> L_car
       [] c = 3 -> L_motorcycle
       [] c = 5 -> L_bus
       [] c = 6 -> L_train
       [] c = 7 -> L_truck]

(* ------------------------ Python dictionaries -------------------------- *)
\* category_counts is a defaultdict(int): a sequence of <<key, value>> pairs in
\* insertion order (iteration and max() follow that order).
DictHas(d, k) == \E j \in 1..Len(d) : d[j][1] = k

\* the value stored for k, 0 when k is absent (what d[k] evaluates to)
DictGet(d, k) ==
  IF DictHas(d, k) THEN d[CHOOSE j \in 1..Len(d) : d[j][1] = k][2] ELSE 0

\* d[k] += 1 on a defaultdict(int) (line 232)
DictIncr_set(d, k) ==
  IF DictHas(d, k)
    THEN [j \in 1..Len(d) |-> IF d[j][1] = k THEN <<k, 1>> ELSE d[j]]
    ELSE Append(d, <<k, 1>>)

DictIncr(d, k) ==
  IF DictHas(d, k)
    THEN [j \in 1..Len(d) |-> IF d[j][1] = k THEN <<k, d[j][2] + 1>> ELSE d[j]]
    ELSE Append(d, <<k, 1>>)

\* reading d[k] on a defaultdict(int) inserts k with 0 when k is absent (line 361)
DictTouch_bump(d, k) == DictIncr(d, k)

DictTouch(d, k) == IF DictHas(d, k) THEN d ELSE Append(d, <<k, 0>>)

\* _draw_counts_on_frame reads category_counts[category] for the five
\* categories in the order of line 360
DrawCounts(d) ==
  DictTouch(DictTouch(DictTouch(DictTouch(DictTouch(d,
    CategoryOrder[1]), CategoryOrder[2]), CategoryOrder[3]),
    CategoryOrder[4]), CategoryOrder[5])

\* sum(category_counts.values())
RECURSIVE DictSum(_)
DictSum(d) == IF Len(d) = 0 THEN 0 ELSE d[1][2] + DictSum(Tail(d))

(* --------------------------- bucket rows ------------------------------- *)
\* sum(second_counts.values()) (lines 239 and 269)
SumCounts_nobus(sc) ==
  sc["cars"] + sc["bikes"] + sc["trucks"] + sc["others"]

SumCounts(sc) ==
  sc["cars"] + sc["bikes"] + sc["buses"] + sc["trucks"] + sc["others"]

\* the row appended to self.time_series_data (lines 240-248 and 270-278)
BucketRow(sec, sc) ==
  [time_in_seconds |-> sec, cars |-> sc["cars"], bikes |-> sc["bikes"],
   buses |-> sc["buses"], trucks |-> sc["trucks"], others |-> sc["others"],
   total |-> SumCounts(sc)]

\* the clock without the division by fps
IntTime_frames(fc, f) == fc

\* int(current_time_in_video) with current_time_in_video = frame_count / fps
\* (lines 183 and 238); fps >= 1 inside the loop
IntTime(fc, f) == fc \div f

\* the test of line 238
SecondCrossed_geq(fc, f, cur) == IntTime(fc, f) >= cur

SecondCrossed(fc, f, cur) == IntTime(fc, f) > cur

\* the value current_second takes at a flush (line 249)
NewSecond_stale(fc, f, cur) == cur

NewSecond(fc, f, cur) == IntTime(fc, f)

(* ------------------------ identity resolution -------------------------- *)
\* list(range(self.detection_counter, self.detection_counter + len(boxes)))
SyntheticIds_fromzero(counter, n) == [k \in 1..n |-> k - 1]

SyntheticIds(counter, n) == [k \in 1..n |-> counter + k - 1]

\* self.detection_counter += len(boxes) (line 208)
NextCounter(counter, n) == counter + n

\* the test of line 230: track_id not in self.tracked_vehicles
IsNew_always(id, seen) == TRUE

IsNew(id, seen) == id \notin seen

\* self.tracked_vehicles.add(track_id) (line 231)
SeenAdd_replace(seen, id) == {id}

SeenAdd(seen, id) == seen \cup {id}

\* self.use_tracking after the detector was run on a frame (lines 186-195):
\* a tracker failure clears it, nothing sets it
ModeAfter_rearm(mode, failed) == IF failed THEN FALSE ELSE TRUE

ModeAfter(mode, failed) == IF failed THEN FALSE ELSE mode

(* ------------------------------- report -------------------------------- *)
\* the keys of a dict
DictKeys(d) == { d[j][1] : j \in 1..Len(d) }

\* counts_df['total'].idxmax() (line 443): the first position of the maximum
IdxMax(rows) ==
  CHOOSE k \in 1..Len(rows) :
    /\ \A j \in 1..Len(rows) : rows[j].total <= rows[k].total
    /\ \A j \in 1..(k - 1) : rows[j].total < rows[k].total

\* max(category_counts, key=category_counts.get) (line 477): the first key, in
\* iteration order, whose value is the maximum
MaxKey(d) ==
  d[CHOOSE k \in 1..Len(d) :
      /\ \A j \in 1..Len(d) : d[j][2] <= d[k][2]
      /\ \A j \in 1..(k - 1) : d[j][2] < d[k][2]][1]

\* one entry of percentages (lines 453-456): (count / total) * 100 as the
\* fraction num / den, or 0
Percentage(count, total) ==
  IF total > 0 THEN [num |-> count * 100, den |-> total]
  ELSE [num |-> 0, den |-> 1]

\* the categories the summary text reads (lines 469-473) that percentages,
\* built from category_counts.items(), has no entry for
MissingKeys(d) ==
  { i \in 1..Len(CategoryOrder) : ~DictHas(d, CategoryOrder[i]) }

\* the first of them, where percentages[...] raises KeyError
FirstMissing(d) ==
  CategoryOrder[CHOOSE i \in MissingKeys(d) : \A j \in MissingKeys(d) : i <= j]

\* what _generate_summary (lines 438-477) puts in the summary
GenerateSummary(rows, d) ==
  [total_vehicles |-> DictSum(d),
   busiest_time |-> IF Len(rows) > 0 THEN rows[IdxMax(rows)].time_in_seconds
                    ELSE 0,
   busiest_count |-> IF Len(rows) > 0 THEN rows[IdxMax(rows)].total ELSE 0,
   percentages |-> [c \in DictKeys(d) |-> Percentage(DictGet(d, c), DictSum(d))],
   most_common |-> IF Len(d) > 0 THEN MaxKey(d) ELSE "None"]

\* main (lines 515-526) and its like run save_results on what
\* detect_and_count returned; an exception of detect_and_count skips it
CanSave_any(p) == p \in {"returned", "raised"}

CanSave(p) == p = "returned"

\* the test of line 203: the tracker's ids are used in tracking mode when
\* boxes.id is there
UseTrackerIds_never(mode, present) == FALSE

UseTrackerIds(mode, present) == mode /\ present

\* total_frames / fps (line 153) raises ZeroDivisionError when int(CAP_PROP_FPS)
\* is 0
FpsError_never(f) == FALSE

FpsError(f) == f = 0

\* self.time_series_data.append(row) (lines 240 and 270)
AppendRow_overwrite(rows, row) ==
  IF Len(rows) = 0 THEN <<row>> ELSE [rows EXCEPT ![Len(rows)] = row]

AppendRow(rows, row) == Append(rows, row)

(* ------------------------------ inputs --------------------------------- *)
\* ids the tracker hands out
TrackIds == 1..MaxTrackId

\* the class indices the detector reports in the runs explored: car and bus
DetectedClasses == {2, 5}

\* results[0].boxes.cls for one frame: up to MaxDet class indices
ClassSeqs == UNION { [1..n -> DetectedClasses] : n \in 0..MaxDet }

\* n distinct tracker ids, one per box
TrackerIdSeqs(n) ==
  { s \in [1..n -> TrackIds] : \A a, b \in 1..n : a # b => s[a] # s[b] }

\* results[0].boxes.id for a frame of n boxes: None (present = FALSE), or, from
\* the tracker only, one id per box
BoxIds(n, tracking) ==
  {[present |-> FALSE, ids |-> <<>>]}
    \cup (IF tracking /\ n > 0
           THEN [present : {TRUE}, ids : TrackerIdSeqs(n)]
           ELSE {})

(* ------------------------------- state --------------------------------- *)
VARIABLES
  pc,                \* where the instance is: "idle" (constructed, no call yet),
                     \* "read" (loop head), "det" (for loop over detections),
                     \* "log" (line 238), "key" (lines 253-266), "flush"
                     \* (line 268), "returned", "raised" (left by an
                     \* exception), "saved" (save_results done), "failed"
                     \* (save_results left by an exception)
  use_tracking,      \* self.use_tracking
  tracked_vehicles,  \* self.tracked_vehicles
  time_series_data,  \* self.time_series_data
  detection_counter, \* self.detection_counter
  category_counts,   \* local defaultdict(int) of detect_and_count
  frame_count,       \* local
  fps,               \* local
  total_frames,      \* local: int(CAP_PROP_FRAME_COUNT), 0 or not
  current_second,    \* local
  second_counts,     \* local
  track_ids,         \* local: the ids of the current frame
  class_indices,     \* local: the class indices of the current frame
  boxes_id,          \* local: results[0].boxes.id of the current frame
  di,                \* position of the for loop of line 212 in the frame
  class_name,        \* argument of a direct call of categorize_vehicle
  category,          \* its result ("none": not called)
  df,                \* the table detect_and_count returned (<<>>: none)
  report,            \* the summary save_results built from it (<<>>: none)
  exc,               \* the exception that ended the last call or save_results
                     \* ("none": none)
  calls,             \* history: calls of detect_and_count so far
  frames_read,       \* history: frames read so far, over all calls
  credits,           \* history: per id observed in this call, whether it was
                     \* observed once (n = 1) or more often (n = 2), and how
                     \* much it added to category_counts (tot) and to
                     \* second_counts (sec)
  synth_log,         \* history: every synthesized id, in the order of issue
  first_cat,         \* history: the category under which an id entered
                     \* tracked_vehicles
  recat,             \* history: this call processed an id of tracked_vehicles
                     \* under another category than the one it entered with
  aborted            \* history: this call's loop was left by the 'q' key

vars ==
  <<pc, use_tracking, tracked_vehicles, time_series_data, detection_counter,
    category_counts, frame_count, fps, total_frames, current_second,
    second_counts, track_ids, class_indices, boxes_id, di, class_name,
    category, df, report, exc, calls, frames_read, credits, synth_log, first_cat, recat, aborted>>

\* the attributes of the instance
attrs == <<use_tracking, tracked_vehicles, time_series_data, detection_counter>>

\* the locals of detect_and_count that outlive one loop iteration
counters ==
  <<category_counts, frame_count, fps, total_frames, current_second,
    second_counts>>

\* the locals of one loop iteration
frame_locals == <<track_ids, class_indices, boxes_id, di>>

history == <<calls, frames_read, credits, synth_log, first_cat, recat, aborted>>

\* boxes.id of a frame that has none
NoIds == [present |-> FALSE, ids |-> <<>>]

\* the empty history function
NoCredits == [id \in {} |-> 0]

\* __init__ (lines 33-80): use_tracking is the argument, cleared when the lap
\* package is missing
InitInstance ==
  /\ pc = "idle"
  /\ use_tracking \in BOOLEAN
  /\ tracked_vehicles = {}
  /\ time_series_data = <<>>
  /\ detection_counter = 0
  /\ category_counts = <<>>
  /\ frame_count = 0
  /\ fps = 0
  /\ total_frames = 0
  /\ current_second = 0
  /\ second_counts = ZeroCounts
  /\ track_ids = <<>>
  /\ class_indices = <<>>
  /\ boxes_id = NoIds
  /\ di = 0
  /\ df = <<>>
  /\ report = <<>>
  /\ exc = "none"
  /\ calls = 0
  /\ frames_read = 0
  /\ credits = NoCredits
  /\ synth_log = <<>>
  /\ first_cat = NoCredits
  /\ recat = FALSE
  /\ aborted = FALSE

Init ==
  /\ InitInstance
  /\ class_name = <<>>
  /\ category = "none"

\* the locals of a call that is not running (never entered, or left by raise)
NoLocals ==
  /\ category_counts' = <<>>
  /\ frame_count' = 0
  /\ fps' = 0
  /\ total_frames' = 0
  /\ current_second' = 0
  /\ second_counts' = ZeroCounts
  /\ track_ids' = <<>>
  /\ class_indices' = <<>>
  /\ boxes_id' = NoIds
  /\ di' = 0

(* ------------------------------ actions -------------------------------- *)
\* detect_and_count is called (lines 138-175).  The video may fail to open
\* (ValueError, line 146) and int(CAP_PROP_FPS) may be 0 (ZeroDivisionError,
\* line 153); otherwise the locals are initialised.  No attribute of the
\* instance is touched.  The frame count the video reports is 0 (a stream
\* of unknown length) or not.
Call ==
  /\ pc \in {"idle", "returned", "raised", "saved", "failed"}
  /\ calls < MaxCalls
  /\ calls' = calls + 1
  /\ df' = <<>>
  /\ report' = <<>>
  /\ credits' = NoCredits
  /\ aborted' = FALSE
  /\ recat' = FALSE
  /\ UNCHANGED <<attrs, class_name, category, frames_read, synth_log, first_cat>>
  /\ \E opened \in BOOLEAN, f \in 0..MaxFps, tf \in {0, MaxFrames} :
       IF ~opened \/ FpsError(f)
         THEN /\ pc' = "raised"
              /\ exc' = IF ~opened THEN "ValueError" ELSE "ZeroDivisionError"
              /\ NoLocals
         ELSE /\ pc' = "read"
              /\ exc' = "none"
              /\ boxes_id' = NoIds
              /\ category_counts' = <<>>
              /\ frame_count' = 0
              /\ fps' = f
              /\ total_frames' = tf
              /\ current_second' = 0
              /\ second_counts' = ZeroCounts
              /\ track_ids' = <<>>
              /\ class_indices' = <<>>
              /\ di' = 0

\* cap.read() returns ret = False: the loop is left (lines 177-180)
StreamEnd ==
  /\ UNCHANGED <<report, exc>>
  /\ pc = "read"
  /\ pc' = "flush"
  /\ UNCHANGED <<attrs, counters, frame_locals, class_name, category, df,
                 history>>

\* One frame is read and the detector answers (lines 182-208).  In tracking
\* mode model.track may raise: the mode is downgraded and the frame is run
\* through the plain detector.  The ids are the tracker's when the mode is
\* tracking and boxes.id is there, else they are synthesized.
DetectFrame ==
  /\ UNCHANGED <<report, exc>>
  /\ pc = "read"
  /\ frames_read < MaxFrames
  /\ frames_read' = frames_read + 1
  /\ frame_count' = frame_count + 1
  /\ \E track_failed \in (IF use_tracking THEN BOOLEAN ELSE {FALSE}),
        cls \in ClassSeqs :
       \E ids \in BoxIds(Len(cls), ModeAfter(use_tracking, track_failed)) :
         LET tracking == ModeAfter(use_tracking, track_failed)
             n == Len(cls)
             use_ids == UseTrackerIds(tracking, ids.present)
             synth == n > 0 /\ ~use_ids
             new_ids == SyntheticIds(detection_counter, n)
         IN /\ use_tracking' = tracking
            /\ class_indices' = cls
            /\ boxes_id' = ids
            /\ track_ids' = IF n = 0 THEN <<>>
                            ELSE IF use_ids THEN ids.ids ELSE new_ids
            /\ detection_counter' =
                 IF synth THEN NextCounter(detection_counter, n)
                 ELSE detection_counter
            /\ synth_log' = IF synth THEN synth_log \o new_ids ELSE synth_log
            /\ di' = IF n > 0 THEN 1 ELSE 0
            /\ pc' = IF n > 0 THEN "det" ELSE "log"
  /\ UNCHANGED <<tracked_vehicles, time_series_data, category_counts, fps,
                 total_frames, current_second, second_counts, class_name, category, df,
                 calls, credits, first_cat, recat, aborted>>

\* The plain detector raises (line 193 after a tracking failure, or line 195):
\* nothing catches it, detect_and_count is left by the exception.
DetectorError ==
  /\ UNCHANGED report
  /\ pc = "read"
  /\ frames_read < MaxFrames
  /\ frames_read' = frames_read + 1
  /\ pc' = "raised"
  /\ exc' = "Exception"
  /\ use_tracking' = FALSE
  /\ NoLocals
  /\ UNCHANGED <<tracked_vehicles, time_series_data, detection_counter,
                 class_name, category, df, calls, credits, synth_log,
                 first_cat, recat, aborted>>

\* f with x mapped to v
Put(f, x, v) == [y \in (DOMAIN f) \cup {x} |-> IF y = x THEN v ELSE f[y]]

\* One detection of the frame is processed (lines 212-235): its class name is
\* looked up and categorized, and it is counted if its id is not in
\* tracked_vehicles.  second_counts[plural_category] raises KeyError when the
\* plural is no key of second_counts.
ProcessDetection ==
  /\ UNCHANGED report
  /\ pc = "det"
  /\ UNCHANGED <<class_name, category>>
  /\ LET track_id == track_ids[di]
         name == class_list[class_indices[di]]
         cat == categorize_vehicle(name)
         plural == PluralOf(cat)
         new == IsNew(track_id, tracked_vehicles)
         old == IF track_id \in DOMAIN credits THEN credits[track_id]
                ELSE [n |-> 0, tot |-> 0, sec |-> 0]
     IN IF new /\ plural \notin DOMAIN second_counts
          THEN /\ pc' = "raised"
               /\ exc' = "KeyError"
               /\ tracked_vehicles' = SeenAdd(tracked_vehicles, track_id)
               /\ NoLocals
               /\ UNCHANGED <<use_tracking, time_series_data,
                              detection_counter, df, history>>
          ELSE /\ tracked_vehicles' =
                    IF new THEN SeenAdd(tracked_vehicles, track_id)
                    ELSE tracked_vehicles
               /\ category_counts' =
                    IF new THEN DictIncr(category_counts, cat)
                    ELSE category_counts
               /\ second_counts' =
                    IF new THEN [second_counts EXCEPT ![plural] = @ + 1]
                    ELSE second_counts
               /\ credits' = Put(credits, track_id,
                    [n |-> IF old.n = 0 THEN 1 ELSE 2,
                     tot |-> old.tot + DictSum(category_counts')
                               - DictSum(category_counts),
                     sec |-> old.sec + SumCounts(second_counts')
                               - SumCounts(second_counts)])
               /\ first_cat' =
                    IF track_id \in tracked_vehicles' \ tracked_vehicles
                      THEN Put(first_cat, track_id, cat)
                      ELSE first_cat
               /\ recat' = (recat \/ (~new /\ track_id \in DOMAIN first_cat
                                        /\ first_cat[track_id] # cat))
               /\ IF di < Len(track_ids)
                    THEN di' = di + 1 /\ pc' = "det"
                    ELSE di' = 0 /\ pc' = "log"
               /\ UNCHANGED <<use_tracking, time_series_data,
                              detection_counter, frame_count, fps,
                              total_frames, current_second, track_ids,
                              class_indices, boxes_id, exc, df, calls,
                              frames_read, synth_log, aborted>>

\* A detection the per-detection code cannot handle (lines 213-216): int() of
\* a box coordinate raises ValueError, or self.class_list has no name for the
\* class index (KeyError).  Nothing catches it: detect_and_count is left by
\* the exception before the detection is counted.
DetectionError ==
  /\ pc = "det"
  /\ pc' = "raised"
  /\ exc' \in {"ValueError", "KeyError"}
  /\ NoLocals
  /\ UNCHANGED <<attrs, class_name, category, df, report, history>>

\* "Log data every second" (lines 237-251): when the integer second of the
\* frame's stream time is past current_second, the running counts are
\* appended as the row of current_second and reset.
Advance ==
  /\ UNCHANGED <<report, exc>>
  /\ pc = "log"
  /\ pc' = "key"
  /\ IF SecondCrossed(frame_count, fps, current_second)
       THEN /\ time_series_data' =
                 AppendRow(time_series_data,
                           BucketRow(current_second, second_counts))
            /\ current_second' = NewSecond(frame_count, fps, current_second)
            /\ second_counts' = ZeroCounts
       ELSE UNCHANGED <<time_series_data, current_second, second_counts>>
  /\ UNCHANGED <<use_tracking, tracked_vehicles, detection_counter,
                 category_counts, frame_count, fps, total_frames,
                 frame_locals, df, history>>
  /\ UNCHANGED <<class_name, category>>

\* The rest of the iteration (lines 253-266): the counts are drawn, which
\* reads category_counts for the five categories; the progress
\* frame_count / total_frames raises ZeroDivisionError when the video
\* reported no frame count; the 'q' key leaves the loop.  The iteration's
\* locals are dead from here on (the next iteration assigns them before it
\* reads them) and are cleared.
WaitKey ==
  /\ UNCHANGED report
  /\ pc = "key"
  /\ IF total_frames = 0
       THEN /\ pc' = "raised"
            /\ exc' = "ZeroDivisionError"
            /\ NoLocals
            /\ UNCHANGED aborted
       ELSE /\ category_counts' = DrawCounts(category_counts)
            /\ UNCHANGED exc
            /\ boxes_id' = NoIds
            /\ \E q \in BOOLEAN :
                 /\ pc' = IF q THEN "flush" ELSE "read"
                 /\ aborted' = q
            /\ track_ids' = <<>>
            /\ class_indices' = <<>>
            /\ di' = 0
            /\ UNCHANGED <<frame_count, fps, total_frames, current_second,
                           second_counts>>
  /\ UNCHANGED <<attrs, class_name, category, df, calls, frames_read,
                 credits, synth_log, first_cat, recat>>

\* "Add final second data" and return (lines 268-292)
FinalFlush ==
  /\ UNCHANGED <<report, exc>>
  /\ pc = "flush"
  /\ pc' = "returned"
  /\ time_series_data' =
       AppendRow(time_series_data, BucketRow(current_second, second_counts))
  /\ df' = time_series_data'
  /\ UNCHANGED <<use_tracking, tracked_vehicles, detection_counter, counters,
                 frame_locals, class_name, category, history>>

\* save_results(counts_df, category_counts) is run on what the call returned
\* (lines 371-393); its last step is _generate_summary.  The summary text
\* reads category_counts[c] and percentages[c] for the five categories in
\* turn: the first category that category_counts has no key for is inserted
\* by the read of the defaultdict, and percentages[c] raises KeyError.
SaveResults ==
  /\ CanSave(pc)
  /\ IF MissingKeys(category_counts) # {}
       THEN /\ pc' = "failed"
            /\ exc' = "KeyError"
            /\ report' = <<>>
            /\ category_counts' =
                 DictTouch(category_counts, FirstMissing(category_counts))
       ELSE /\ pc' = "saved"
            /\ report' = <<GenerateSummary(df, category_counts)>>
            /\ UNCHANGED <<category_counts, exc>>
  /\ UNCHANGED <<attrs, frame_count, fps, total_frames, current_second,
                 second_counts, frame_locals, class_name, category, df,
                 history>>

Next ==
  \/ Call
  \/ StreamEnd
  \/ DetectFrame
  \/ DetectorError
  \/ ProcessDetection
  \/ DetectionError
  \/ Advance
  \/ WaitKey
  \/ FinalFlush
  \/ SaveResults

Spec == Init /\ [][Next]_vars

(* ------------------- categorize_vehicle on its own --------------------- *)
\* the upper-case form of a lower-case letter (other characters unchanged)
UpperChar(c) ==
  IF \E i \in 1..26 : LowerChars[i] = c
    THEN UpperChars[CHOOSE i \in 1..26 : LowerChars[i] = c]
    ELSE c

\* every spelling of s in upper and lower case
CaseVariants(s) ==
  { [i \in 1..Len(s) |-> IF i \in U THEN UpperChar(s[i]) ELSE s[i]] :
      U \in SUBSET (1..Len(s)) }

\* labels that are no key of class_mapping
OtherLabels ==
  { <<>>, <<"p","e","r","s","o","n">>, <<"b","o","a","t">>,
    <<"c","a","r","s">>, <<"b","u">>, <<"b","u","s"," ">>,
    <<"t","r","u","c","k","s">> }

\* the class names categorize_vehicle is called with
LabelInputs ==
  UNION { CaseVariants(s) :
            s \in {L_bicycle, L_car, L_motorcycle, L_bus, L_train, L_truck}
                    \cup OtherLabels }

InitCat ==
  /\ InitInstance
  /\ class_name \in LabelInputs
  /\ category = "none"

\* categorize_vehicle(class_name) is called on the instance (lines 82-100)
Categorize ==
  /\ UNCHANGED <<report, exc>>
  /\ category = "none"
  /\ category' = categorize_vehicle(class_name)
  /\ UNCHANGED <<pc, attrs, counters, frame_locals, class_name, df, history>>

NextCat == Categorize

SpecCat == InitCat /\ [][NextCat]_vars

(* ------------------------------ claims --------------------------------- *)
\* the sum of one column over the rows of a table
RECURSIVE ColumnSum(_, _)
ColumnSum(rows, col) ==
  IF Len(rows) = 0 THEN 0 ELSE rows[1][col] + ColumnSum(Tail(rows), col)

\* the rows' time indices are 0, 1, ..., Len(rows) - 1
Contiguous(rows) == \A k \in 1..Len(rows) : rows[k].time_in_seconds = k - 1

\* the rows' time indices increase strictly
StrictlyIncreasing(rows) ==
  \A k \in 1..Len(rows) - 1 :
    rows[k].time_in_seconds < rows[k + 1].time_in_seconds

\* every category's column of the table sums to its entry in category_counts
Conserved(rows, totals) ==
  /\ \A c \in Categories : ColumnSum(rows, PluralOf(c)) = DictGet(totals, c)
  /\ ColumnSum(rows, "total") = DictSum(totals)

\* the positions of the frame loop
LoopPcs == {"read", "det", "log", "key", "flush"}

\* C1: within one call of detect_and_count, an id observed in more than one
\* detection has added exactly 1 to the category totals and exactly 1 to the
\* per-second counts.
C1_DedupCountsOnce ==
  \A id \in DOMAIN credits :
    credits[id].n = 2 => credits[id].tot = 1 /\ credits[id].sec = 1

\* C2: when detect_and_count returns, every category's column of the returned
\* table sums to that category's returned total, and the total column sums to
\* the sum of the totals.
C2_Conservation == pc = "returned" => Conserved(df, category_counts)

\* C3: the time indices of the returned table are exactly 0, 1, ...,
\* floor(stream time of the last frame), each once and in increasing order.
C3_IndicesComplete ==
  pc = "returned" =>
    /\ Len(df) = IntTime(frame_count, fps) + 1
    /\ Contiguous(df)

\* C4: the returned table always has at least one row, and the time index of
\* its last row is floor(stream time of the last processed frame), 0 when no
\* frame was processed; the last row is the final flush of the running counts.
C4_FinalRow ==
  pc = "returned" =>
    /\ Len(df) >= 1
    /\ df[Len(df)].time_in_seconds = IntTime(frame_count, fps)
    /\ df[Len(df)] = BucketRow(current_second, second_counts)

\* C4 witness: a call over two frames at one frame per second returned, and
\* its last row is the empty bucket of second 2
C4_Witness ==
  /\ pc = "returned"
  /\ frame_count = 2
  /\ fps = 1
  /\ df[Len(df)].time_in_seconds = 2
  /\ df[Len(df)].total = 0

\* C5: a call whose loop was left by the 'q' key still appends the final row
\* and returns a non-empty table that is conserved and whose time indices
\* increase strictly.
C5_AbortKeepsInvariants ==
  (pc = "returned" /\ aborted) =>
    /\ Len(df) >= 1
    /\ df[Len(df)] = BucketRow(current_second, second_counts)
    /\ Conserved(df, category_counts)
    /\ StrictlyIncreasing(df)

\* C6: no step of the frame loop removes an id from tracked_vehicles or
\* lowers a category total.
C6_Monotone ==
  [][(pc \in LoopPcs /\ pc' \in LoopPcs \cup {"returned"}) =>
       /\ tracked_vehicles \subseteq tracked_vehicles'
       /\ Cardinality(tracked_vehicles') >= Cardinality(tracked_vehicles)
       /\ \A c \in Categories :
            DictGet(category_counts', c) >= DictGet(category_counts, c)]_vars

\* C6 witness: the loop has counted three ids, two of them in one category
C6_Witness ==
  /\ pc \in LoopPcs
  /\ Cardinality(tracked_vehicles) >= 3
  /\ \E c \in Categories : DictGet(category_counts, c) >= 2

\* two characters are the same letter, whatever their case
SameLetter(x, y) ==
  x = y \/ \E i \in 1..26 : {x, y} = {UpperChars[i], LowerChars[i]}

\* two labels are equal up to case
EqualIgnoringCase(a, b) ==
  Len(a) = Len(b) /\ \A i \in 1..Len(a) : SameLetter(a[i], b[i])

\* the category the mapping table of the specification gives a label
TableCategory(name) ==
  IF EqualIgnoringCase(name, L_car) THEN "car"
  ELSE IF EqualIgnoringCase(name, L_bicycle) THEN "bike"
  ELSE IF EqualIgnoringCase(name, L_motorcycle) THEN "bike"
  ELSE IF EqualIgnoringCase(name, L_bus) THEN "bus"
  ELSE IF EqualIgnoringCase(name, L_truck) THEN "truck"
  ELSE "others"

\* C7: categorize_vehicle maps every label, whatever its case, into the five
\* categories: car to car, bicycle and motorcycle to bike, bus to bus, truck
\* to truck, train and every label outside the table to others; the call
\* leaves the instance as it was constructed.
C7_Categorize ==
  /\ category # "none" =>
       /\ category \in Categories
       /\ category = TableCategory(class_name)
  /\ pc = "idle"
  /\ tracked_vehicles = {}
  /\ time_series_data = <<>>
  /\ detection_counter = 0

\* C7 witness: a key of the table spelled with capitals was categorized
C7_Witness ==
  /\ class_name = <<"B","i","c","Y","c","l","e">>
  /\ category = "bike"

\* C8: when an id already in tracked_vehicles is observed under another
\* category than the one it entered with, no category total and no
\* per-second count changes, and the recorded category stays.
C8_FirstCategoryFinal ==
  [][(/\ pc = "det"
      /\ track_ids[di] \in tracked_vehicles
      /\ first_cat[track_ids[di]]
           # categorize_vehicle(class_list[class_indices[di]])
      /\ pc' # "raised")
     => /\ pc' \in {"det", "log"}
        /\ \A c \in Categories :
             DictGet(category_counts', c) = DictGet(category_counts, c)
        /\ second_counts' = second_counts
        /\ time_series_data' = time_series_data
        /\ first_cat' = first_cat]_vars

\* C8 witness: the call has processed an id of tracked_vehicles under
\* another category than its first
C8_Witness == recat /\ pc \in {"det", "log"}

\* the elements of a sequence
Range(q) == { q[k] : k \in 1..Len(q) }

\* C9: a frame of N detections whose ids are synthesized gets the ids
\* counter, ..., counter + N - 1 in detection order, the counter grows by
\* exactly N, and none of the ids was synthesized before.
C9_SyntheticIds ==
  [][synth_log' # synth_log =>
       LET n == Len(class_indices')
       IN /\ n > 0
          /\ track_ids' = [k \in 1..n |-> detection_counter + k - 1]
          /\ detection_counter' = detection_counter + n
          /\ synth_log' = synth_log \o track_ids'
          /\ Range(track_ids') \cap Range(synth_log) = {}]_vars

\* C9 witness: ids were synthesized for a second frame, after a first frame
\* of two detections
C9_Witness ==
  /\ pc = "det"
  /\ synth_log = <<0, 1, 2, 3>>
  /\ track_ids = <<2, 3>>

\* a step of a frame without detections (a step that leaves the call by an
\* exception aside: it discards the locals)
ZeroDetectionStep ==
  \/ pc = "read" /\ pc' = "log"
  \/ pc \in {"log", "key"} /\ Len(class_indices) = 0 /\ pc' # "raised"

\* C10: a frame without detections leaves the synthetic-id counter,
\* tracked_vehicles and the category totals as they were; the running
\* per-second counts change only by the flush of line 238, which appends
\* them as a row and resets them.
C10_ZeroDetectionFrame ==
  [][ZeroDetectionStep =>
       /\ detection_counter' = detection_counter
       /\ synth_log' = synth_log
       /\ tracked_vehicles' = tracked_vehicles
       /\ \A c \in Categories :
            DictGet(category_counts', c) = DictGet(category_counts, c)
       /\ \/ second_counts' = second_counts /\ time_series_data' = time_series_data
          \/ /\ pc = "log"
             /\ IntTime(frame_count, fps) > current_second
             /\ second_counts' = ZeroCounts
             /\ time_series_data' =
                  Append(time_series_data, BucketRow(current_second, second_counts))]_vars

\* C10 witness: the second frame of a call at two frames per second had no
\* detections and has been run through to the key test; its stream time
\* flushed what the first frame had counted
C10_Witness ==
  /\ pc = "key"
  /\ Len(class_indices) = 0
  /\ frame_count = 2
  /\ fps = 2
  /\ detection_counter > 0
  /\ Len(time_series_data) = 1
  /\ time_series_data[1].total > 0
  /\ second_counts = ZeroCounts

\* the ids in tracked_vehicles that came from the tracker: every id of
\* tracked_vehicles was a track id of a frame, and a track id is the tracker's
\* or is logged in synth_log
TrackerSupplied == tracked_vehicles \ Range(synth_log)

\* a frame was read and the detector answered with detections
FrameStep == pc = "read" /\ pc' = "det"

\* the frame on which the tracker failed: the mode is cleared and the call
\* goes on
DowngradeStep == use_tracking /\ ~use_tracking' /\ pc' # "raised"

\* C11: once the instance is in detection-only mode it stays there: no later
\* step sets tracking mode again, and every later frame with detections
\* takes its ids from the synthetic counter, never from the tracker.
C11_DowngradeOneWay ==
  [][~use_tracking =>
       /\ ~use_tracking'
       /\ FrameStep =>
            /\ track_ids' =
                 [k \in 1..Len(class_indices') |-> detection_counter + k - 1]
            /\ synth_log' = synth_log \o track_ids']_vars

\* C11 witness: after a frame with tracker id 2 the tracker failed; the
\* second frame after the failure is processed with a synthetic id
C11_Witness ==
  /\ ~use_tracking
  /\ pc = "det"
  /\ calls = 1
  /\ frame_count = 3
  /\ TrackerSupplied = {2}
  /\ synth_log = <<0, 1>>
  /\ track_ids = <<1>>

\* C12: ids synthesized (after a tracking failure, or at any other time)
\* continue from the counter, and none of them equals an id the tracker
\* supplied before.
C12_NoReissue ==
  [][synth_log' # synth_log =>
       /\ track_ids'[1] = detection_counter
       /\ Range(track_ids') \cap TrackerSupplied = {}]_vars

\* C13: in detection-only mode every detection is counted: processing it
\* adds exactly 1 to its category's total and to its category's running
\* per-second count.
C13_CountEveryDetection ==
  [][(pc = "det" /\ ~use_tracking /\ pc' # "raised") =>
       LET cat == categorize_vehicle(class_list[class_indices[di]])
       IN /\ DictGet(category_counts', cat) = DictGet(category_counts, cat) + 1
          /\ second_counts'[PluralOf(cat)] = second_counts[PluralOf(cat)] + 1
          /\ DictSum(category_counts') = DictSum(category_counts) + 1
          /\ SumCounts(second_counts') = SumCounts(second_counts) + 1]_vars

\* C14: every call of detect_and_count starts with an empty tracked_vehicles
\* and an empty time_series_data, and the table it returns starts at index 0
\* and has strictly increasing indices.
C14_SessionReset ==
  /\ (pc = "read" /\ frame_count = 0) =>
       tracked_vehicles = {} /\ time_series_data = <<>>
  /\ pc = "returned" =>
       df[1].time_in_seconds = 0 /\ StrictlyIncreasing(df)

\* every category has a percentage in the report, and it is 0
AllPercentagesZero(r) ==
  \A c \in Categories :
    c \in DOMAIN r.percentages /\ r.percentages[c].num = 0

\* C15: a call that read no frame returns exactly one row, index 0 and all
\* counts 0, and save_results on that result builds a report with total 0,
\* every percentage 0 and the first category of the fixed order as the most
\* common one.
C15_EmptyStream ==
  /\ (pc = "returned" /\ frame_count = 0) => df = <<BucketRow(0, ZeroCounts)>>
  /\ (pc \in {"saved", "failed"} /\ frame_count = 0) =>
       /\ pc = "saved"
       /\ report[1].total_vehicles = 0
       /\ AllPercentagesZero(report[1])
       /\ report[1].most_common = CategoryOrder[1]

\* the largest category total
MaxTotal(d) ==
  CHOOSE v \in { DictGet(d, c) : c \in Categories } :
    \A c \in Categories : DictGet(d, c) <= v

\* the first category, in the fixed order, that has the largest total
FirstByPrecedence(d) ==
  CategoryOrder[CHOOSE i \in 1..Len(CategoryOrder) :
    /\ DictGet(d, CategoryOrder[i]) = MaxTotal(d)
    /\ \A j \in 1..(i - 1) : DictGet(d, CategoryOrder[j]) < MaxTotal(d)]

\* C16: the most common category of the report has the largest category
\* total, and among the categories with the largest total it is the first in
\* the fixed order car, bike, bus, truck, others, whatever the order of the
\* detections was.
C16_DominantFixedOrder ==
  pc = "saved" =>
    /\ DictGet(category_counts, report[1].most_common) = MaxTotal(category_counts)
    /\ report[1].most_common = FirstByPrecedence(category_counts)

\* the largest total of a row of the table
MaxRowTotal(rows) ==
  CHOOSE v \in { rows[k].total : k \in 1..Len(rows) } :
    \A k \in 1..Len(rows) : rows[k].total <= v

\* C17: the busiest moment of the report is a row of the table with the
\* largest total, and no row with that total has a smaller time index.
C17_BusiestEarliest ==
  pc = "saved" =>
    /\ report[1].busiest_count = MaxRowTotal(df)
    /\ \E k \in 1..Len(df) :
         /\ df[k].total = report[1].busiest_count
         /\ df[k].time_in_seconds = report[1].busiest_time
    /\ \A k \in 1..Len(df) :
         df[k].total = MaxRowTotal(df) =>
           report[1].busiest_time <= df[k].time_in_seconds

\* C18: when the category totals sum to 0, save_results builds the report,
\* and every category's percentage in it is 0.
C18_ZeroTotalPercentages ==
  (pc \in {"saved", "failed"} /\ DictSum(category_counts) = 0) =>
    /\ pc = "saved"
    /\ AllPercentagesZero(report[1])

\* C19: a step that leaves detect_and_count by an exception appends no row
\* and leaves no returned table and no report; after it save_results is not
\* run: the next step, if any, is a new call.
C19_ErrorNoReport ==
  [][/\ pc' = "raised" =>
          /\ time_series_data' = time_series_data
          /\ df' = <<>>
          /\ report' = <<>>
     /\ pc = "raised" =>
          /\ pc' \in {"read", "raised"}
          /\ calls' = calls + 1]_vars

\* C19 witness: in detection-only mode the first frame was counted and
\* flushed as a row, and the detector raised on the second frame
C19_Witness ==
  /\ pc = "raised"
  /\ calls = 1
  /\ frames_read = 2
  /\ ~use_tracking
  /\ detection_counter > 0
  /\ Len(time_series_data) = 1
  /\ time_series_data[1].total > 0
  /\ df = <<>>

\* C20: on the frame on which the tracker fails the call goes on: the frame
\* is counted as a frame, its detections get the synthetic ids counter, ...,
\* counter + N - 1, none of which is in tracked_vehicles (so that each of
\* them is counted), and the loop continues with these detections.
C20_TrackingFailureContinues ==
  [][DowngradeStep =>
       LET n == Len(class_indices')
       IN /\ frame_count' = frame_count + 1
          /\ pc' = (IF n > 0 THEN "det" ELSE "log")
          /\ track_ids' = [k \in 1..n |-> detection_counter + k - 1]
          /\ detection_counter' = detection_counter + n
          /\ Range(track_ids') \cap tracked_vehicles = {}]_vars

\* C21: a detection that cannot be processed is skipped: no step of the loop
\* over a frame's detections ends the call.
C21_MalformedSkipped ==
  [][pc = "det" => pc' \in {"det", "log"}]_vars

\* the columns of the table
RowFields ==
  {"time_in_seconds", "cars", "bikes", "buses", "trucks", "others", "total"}

\* a row has exactly the columns of the table, and its total is the sum of
\* its five counts
WellFormedRow(row) ==
  /\ DOMAIN row = RowFields
  /\ row.total = row.cars + row.bikes + row.buses + row.trucks + row.others

\* C22: every row appended to time_series_data, and every row of a returned
\* table, has exactly the fields time_in_seconds, cars, bikes, buses, trucks,
\* others and total, and its total is the sum of its five counts.
C22_RowShape ==
  /\ \A k \in 1..Len(time_series_data) : WellFormedRow(time_series_data[k])
  /\ \A k \in 1..Len(df) : WellFormedRow(df[k])

\* C22 witness: a returned table has a row with a car and a bus
C22_Witness ==
  /\ pc = "returned"
  /\ \E k \in 1..Len(df) :
       df[k].cars = 1 /\ df[k].buses = 1 /\ df[k].total = 2

\* C23: the plural of every category categorize_vehicle returns is one of
\* the five keys of second_counts, 'bus' gives 'buses', and crediting it
\* leaves second_counts with the same five keys.
C23_PluralIsCounterKey ==
  category # "none" =>
    /\ PluralOf(category) \in PluralKeys
    /\ PluralOf(category) \in DOMAIN second_counts
    /\ category = "bus" => PluralOf(category) = "buses"
    /\ DOMAIN [second_counts EXCEPT ![PluralOf(category)] = @ + 1] = PluralKeys
    /\ DOMAIN second_counts = PluralKeys

\* C23 witness: a label spelled with capitals was categorized as bus
C23_Witness ==
  /\ class_name = <<"B","U","s">>
  /\ category = "bus"
  /\ PluralOf(category) = "buses"

\* the ids the current frame has added to the counts: observed once in this
\* call, in this frame, and counted
NewInFrame ==
  { id \in Range(track_ids) :
      id \in DOMAIN credits /\ credits[id].n = 1 /\ credits[id].sec = 1 }

\* C24: at a frame whose stream time crosses into a new second, the row
\* flushed holds only what the frames before it had counted, and what the
\* crossing frame counted is in the running counts of the new second.
C24_CrossingFrameInNewBucket ==
  [][(pc = "log" /\ frame_count \div fps > current_second) =>
       /\ Len(time_series_data') = Len(time_series_data) + 1
       /\ time_series_data'[Len(time_series_data')].total
            = SumCounts(second_counts) - Cardinality(NewInFrame)
       /\ SumCounts(second_counts') = Cardinality(NewInFrame)]_vars

\* C25: the step of lines 237-251 appends a row if and only if the integer
\* second of the frame's stream time is greater than current_second; the row
\* carries current_second and the running counts, current_second becomes
\* that integer second and the running counts become zero; otherwise
\* time_series_data, current_second and the running counts are unchanged.
C25_AdvanceStep ==
  [][pc = "log" =>
       IF frame_count \div fps > current_second
         THEN /\ Len(time_series_data') = Len(time_series_data) + 1
              /\ SubSeq(time_series_data', 1, Len(time_series_data))
                   = time_series_data
              /\ LET row == time_series_data'[Len(time_series_data')]
                 IN /\ row.time_in_seconds = current_second
                    /\ \A k \in PluralKeys : row[k] = second_counts[k]
              /\ current_second' = frame_count \div fps
              /\ \A k \in PluralKeys : second_counts'[k] = 0
         ELSE /\ time_series_data' = time_series_data
              /\ current_second' = current_second
              /\ second_counts' = second_counts]_vars

\* C25 witness: the second frame of a call
\* at two frames per second has flushed the bus counted in the first frame
C25_Witness ==
  /\ pc = "key"
  /\ calls = 1
  /\ fps = 2
  /\ frame_count = 2
  /\ current_second = 1
  /\ Len(time_series_data) = 1
  /\ time_series_data[1].buses = 1
  /\ second_counts = ZeroCounts

\* C26: a row of time_series_data never changes once it is appended: every
\* step keeps every row it finds, at its position.
C26_RowsImmutable ==
  [][/\ Len(time_series_data') >= Len(time_series_data)
     /\ \A k \in 1..Len(time_series_data) :
          time_series_data'[k] = time_series_data[k]]_vars

\* C26 witness: a call returned after a row with a count was flushed and two
\* more rows were appended behind it
C26_Witness ==
  /\ pc = "returned"
  /\ calls = 1
  /\ Len(time_series_data) = 3
  /\ time_series_data[1].total = 2
  /\ time_series_data[2].total = 1

C28_OwnClockContiguous ==
  calls = 1 =>
    /\ pc \in LoopPcs =>
         /\ fps >= 1
         /\ Len(time_series_data) = current_second
         /\ Contiguous(time_series_data)
    /\ pc \in {"read", "key", "flush"} => current_second = frame_count \div fps
    /\ pc \in {"det", "log"} =>
         /\ current_second <= frame_count \div fps
         /\ frame_count \div fps <= current_second + 1
    /\ pc = "returned" =>
         /\ Len(df) = (frame_count \div fps) + 1
         /\ Contiguous(df)

\* C28 witness: the first call read three frames at two frames per second
\* and returned the rows of seconds 0 and 1
C28_Witness ==
  /\ pc = "returned"
  /\ calls = 1
  /\ fps = 2
  /\ frame_count = 3
  /\ Len(df) = 2

\* C29: during the first call of detect_and_count the size of
\* tracked_vehicles equals the sum of the category totals, which equals the
\* sum of the totals of the rows appended so far plus the running counts.
C29_SeenEqualsTotals ==
  (calls = 1 /\ pc \in LoopPcs) =>
    /\ Cardinality(tracked_vehicles) = DictSum(category_counts)
    /\ DictSum(category_counts)
         = ColumnSum(time_series_data, "total") + SumCounts(second_counts)

\* C29 witness: the first call has counted three ids, some of them in a row
\* already flushed and some in the running counts
C29_Witness ==
  /\ calls = 1
  /\ pc = "log"
  /\ Cardinality(tracked_vehicles) = 3
  /\ Len(time_series_data) = 1
  /\ time_series_data[1].total >= 1
  /\ SumCounts(second_counts) >= 1

\* C30: a call for a video whose frame rate is 0 is left by
\* ZeroDivisionError before a frame is read: tracked_vehicles, the
\* synthetic-id counter and time_series_data are as before the call, and no
\* call is ever in its frame loop with fps 0.
C30_ZeroFpsFails ==
  [][/\ (calls' = calls + 1 /\ exc' = "ZeroDivisionError") =>
          /\ pc' = "raised"
          /\ tracked_vehicles' = tracked_vehicles
          /\ detection_counter' = detection_counter
          /\ time_series_data' = time_series_data
          /\ frames_read' = frames_read
          /\ df' = <<>>
     /\ pc' \in LoopPcs => fps' >= 1]_vars

\* C30 witness: the first call on the instance was given a video with frame
\* rate 0
C30_Witness ==
  /\ pc = "raised"
  /\ exc = "ZeroDivisionError"
  /\ calls = 1
  /\ frames_read = 0
  /\ tracked_vehicles = {}
  /\ time_series_data = <<>>

============================================================================
